---- MODULE Spec2Model ----
(***************************************************************************)
(* Ingestion and enrichment pipeline of the Wellershoff back end:          *)
(* the article store behind NewsController, the two background loops       *)
(* (NewsScraperScheduler, WatsonService) and the WatsonX batch processor.  *)
(*                                                                         *)
(* Names are resolved the way the Python modules import them:              *)
(*   News, Category   -> app/db/models.py                                  *)
(*   ImpactType       -> app/common/enums.py                               *)
(*   NewsController   -> app/api/controllers/news.py                       *)
(* A reference to a name these modules do not define raises at run time    *)
(* (AttributeError / TypeError); the handlers below carry that outcome.    *)
(*                                                                         *)
(* Specifications:                                                         *)
(*   Spec      the two loops over any stored articles                      *)
(*   FairSpec  the two loops, every ready task eventually run              *)
(*   RestSpec  the REST handlers create and update                         *)
(*   CreateSpec the create handlers of articles, sources and users         *)
(*   BatchSpec one call of NewsProcessor.process_news_batch                *)
(*   MapSpec   the response handling of process_news_batch                 *)
(*   ParseSpec the label parsed from one generated text for one title      *)
(*   ScrapeAllSpec one call of scrape_all_news                             *)
(*   StatsSpec one call of ReportGenerator._calculate_impact_statistics    *)
(*   WeekSpec  the same call on a week's window of labeled articles        *)
(*   GenerateSpec one call of ReportGenerator.generate_weekly_report       *)
(*   ReportSpec   POST /api/v1/reports/weekly over any stored articles     *)
(*   SourceSpec   the create, update and delete handlers of sources        *)
(*   WriteBackSpec the write-back of a pass and the manual label writer    *)
(***************************************************************************)
EXTENDS Integers, Sequences, FiniteSets, TLC

\* ------------------------------------------------------------------ bounds
MaxIds == 2
MaxTasks == 1
MaxBatch == 3
MaxText == 3
MaxNews == 5
WindowSize == 15
MaxItems == 3
MaxSources == 3

\* ------------------------------------------------------ names the code uses
\* app/common/enums.py: member name -> stored value
ImpactType ==
    [VERY_POSITIVE |-> "very_positive", POSITIVE |-> "positive",
     UNSURE |-> "unsure", NEGATIVE |-> "negative",
     VERY_NEGATIVE |-> "very_negative"]

ImpactValues == {ImpactType[n] : n \in DOMAIN ImpactType}

\* app/db/models.py: the attributes of the mapped class News
NewsAttrs ==
    {"id", "title", "content", "summary", "user_id", "image_url",
     "impact_prediction", "impact_prediction_justification",
     "created_at", "updated_at", "categories", "news_urls", "to_dict"}

\* app/api/controllers/news.py: the store operations of NewsController
NewsControllerMethods ==
    {"get_all", "get_by_id", "get_by_category", "search", "create",
     "update", "delete", "get_latest", "predict_impact"}

\* app/api/schemas/news.py: the fields NewsCreate requires
NewsCreateRequired == {"title", "content", "url", "published_at"}

\* what Python does with cls.name when cls has no such attribute
GetAttr(attrs, name) == IF name \in attrs THEN "none" ELSE "AttributeError"

\* ------------------------------------------------------------- value sets
Ids == 1..MaxIds
NULL == "NULL"
Svcs == {"scheduler", "watson"}
Positions == {"created", "sleeping", "crashed"}
CategoryNames == {"markets"}
Urls == {"u1", "u2"}

LowerChar(c) ==
    CASE c = "F" -> "f"
      [] c = "E" -> "e"
      [] c = "D" -> "d"
      [] OTHER -> c

\* str.lower()
Lower(t) == [i \in DOMAIN t |-> LowerChar(t[i])]

Min(S) == CHOOSE x \in S : \A y \in S : x <= y

TFed == <<"F", "e", "d">>
Tfed == <<"f", "e", "d">>
TfedBang == <<"f", "e", "d", "!">>
TEcb == <<"E", "C", "B">>

\* the title a row with this id was stored with
SeedTitle(id) == IF id = 1 THEN TFed ELSE TEcb

\* fetched candidates (title, url)
Candidates ==
    <<[title |-> Tfed, url |-> "u1"],
      [title |-> TFed, url |-> "u2"],
      [title |-> TfedBang, url |-> "u2"]>>

\* result of one fetch: a window of at most MaxBatch candidates
Batch(start, len) ==
    [i \in 1..len |-> Candidates[((start + i - 2) % Len(Candidates)) + 1]]

Batches == {Batch(1, n) : n \in 0..MaxBatch}

VARIABLES
    news,        \* table news: id -> [title, label, just, updated_at]
    cats,        \* table categories: name -> news_id of the row (0: no row)
    urls,        \* table news_url: url -> news_id of the row (0: no row)
    is_running,  \* svc -> the instance's is_running flag
    tasks,       \* svc -> position -> number of tasks running start() there
    writes,      \* id -> number of label writes made by each loop
    sources,     \* table sources: id -> [codename]
    users,       \* table users: the emails of the rows
    event        \* the call made by the last step and its outcome

vars ==
    <<news, cats, urls, is_running, tasks, writes, sources, users, event>>

Store == [news |-> news, cats |-> cats, urls |-> urls]
\* ---------------------------------------------------------- NewsController
\* get_all: db.query(News).order_by(desc(News.published_at))...; the class
\* attribute News.published_at is looked up before any query is sent
get_all(st, limit, offset) ==
    [raised |-> GetAttr(NewsAttrs, "published_at"), value |-> <<>>]

\* NewsModel.model_validate(row): url and published_at are required fields
\* of NewsModel and are read from the row's attributes
model_validate ==
    IF {"url", "published_at"} \subseteq NewsAttrs
    THEN "NewsModel" ELSE "ValidationError"

NameSet(names) == {names[i] : i \in DOMAIN names}

\* create: get-or-create the categories, construct News(...), add, commit.
\*   - Category(name=...) has no news_id (NOT NULL): the flush raises
\*     IntegrityError outside the try block
\*   - News(..., url=..., published_at=...) names two attributes the mapped
\*     class does not have: the constructor raises TypeError
\*   - otherwise the insert has no user_id (NOT NULL): IntegrityError,
\*     rollback, ValueError
\* No path commits.
NewsController_create(st, d) ==
    IF \E n \in NameSet(d.category_names) : st.cats[n] = 0
    THEN [st |-> st, ret |-> "IntegrityError", id |-> 0]
    ELSE IF ~({"url", "published_at"} \subseteq NewsAttrs)
    THEN [st |-> st, ret |-> "TypeError", id |-> 0]
    ELSE [st |-> st, ret |-> "ValueError", id |-> 0]

\* update that writes the label and its justification whether supplied or
\* not
NewsController_update_AllFields(st, news_id, d) ==
    IF news_id \notin DOMAIN st.news
    THEN [st |-> st, ret |-> "None"]
    ELSE [st |-> [st EXCEPT !.news[news_id] =
                     [title |-> st.news[news_id].title, label |-> d.label,
                      just |-> d.just, updated_at |-> "now"]],
          ret |-> model_validate]

\* update: d.given is the set of fields of NewsUpdate that are not None
NewsController_update(st, news_id, d) ==
    IF news_id \notin DOMAIN st.news
    THEN [st |-> st, ret |-> "None"]
    ELSE
      LET old == st.news[news_id]
          row == [title |-> IF "title" \in d.given THEN d.title ELSE old.title,
                  label |-> IF "impact_prediction" \in d.given
                            THEN d.label ELSE old.label,
                  just |-> IF "impact_prediction_justification" \in d.given
                           THEN d.just ELSE old.just,
                  \* news.updated_at = datetime.now()
                  updated_at |-> "now"]
          withCats == "category_names" \in d.given
          names == IF withCats THEN NameSet(d.category_names) ELSE {}
      IN
        \* the column is Enum(ImpactType): any other string is refused
        \* when the UPDATE is sent (flush or commit)
        IF row.label \notin ImpactValues \cup {NULL}
        THEN [st |-> st, ret |-> "DataError"]
        \* a category row created here has no news_id: flush fails
        ELSE IF \E n \in names : st.cats[n] = 0
        THEN [st |-> st, ret |-> "IntegrityError"]
        \* news.categories = categories: a row dropped from the collection
        \* gets news_id NULL; IntegrityError at commit, rollback, ValueError
        ELSE IF withCats /\ \E n \in CategoryNames :
                                st.cats[n] = news_id /\ n \notin names
        THEN [st |-> st, ret |-> "ValueError"]
        ELSE [st |-> [st EXCEPT !.news[news_id] = row,
                                !.cats = [n \in CategoryNames |->
                                            IF n \in names THEN news_id
                                            ELSE st.cats[n]]],
              ret |-> model_validate]
\* ------------------------------------------- SourceController, UserController
Codenames == {"ft", "bb"}
Emails == {"a@x", "b@x"}

\* what the database does with the statements of a call
DbOutcomes == {"ok", "OperationalError"}

\* the except clauses of SourceController.create, in order:
\* except IntegrityError -> 400, except Exception -> 500
SourceCreateHandler(raised) ==
    IF raised = "IntegrityError" THEN 400 ELSE 500

\* SourceController.create: the lookup by codename, the HTTPException(400)
\* for a codename in use, the insert and the commit are all inside the
\* try block
SourceController_create(srcs, codename, db) ==
    IF db # "ok"
    THEN [sources |-> srcs, status |-> SourceCreateHandler(db)]
    ELSE IF \E i \in DOMAIN srcs : srcs[i].codename = codename
    THEN [sources |-> srcs, status |-> SourceCreateHandler("HTTPException")]
    ELSE [sources |-> Append(srcs, [codename |-> codename]),
          status |-> 200]

\* SourceController.update: 404 for an unknown id; the fields given are
\* assigned and committed, the codename among them; codename is NULL when
\* not given
SourceController_update(srcs, source_id, codename, db) ==
    IF source_id \notin DOMAIN srcs
    THEN [sources |-> srcs, status |-> 404]
    ELSE IF db # "ok"
    THEN [sources |-> srcs, status |-> SourceCreateHandler(db)]
    ELSE [sources |-> IF codename # NULL
                      THEN [srcs EXCEPT ![source_id].codename = codename]
                      ELSE srcs,
          status |-> 200]

\* SourceController.delete: 404 for an unknown id, 400 (passed on by
\* except HTTPException: raise) for a source a NewsUrl row refers to,
\* else the row is deleted
SourceController_delete(srcs, source_id, referenced, db) ==
    IF source_id \notin DOMAIN srcs
    THEN [sources |-> srcs, status |-> 404]
    ELSE IF db # "ok" THEN [sources |-> srcs, status |-> 500]
    ELSE IF referenced THEN [sources |-> srcs, status |-> 400]
    ELSE [sources |-> SubSeq(srcs, 1, source_id - 1)
                          \o SubSeq(srcs, source_id + 1, Len(srcs)),
          status |-> 200]

\* UserController.create: ValueError for an email in use, else the insert
\* (IntegrityError is turned into ValueError)
UserController_create(usrs, email, db) ==
    IF db # "ok" THEN [users |-> usrs, ret |-> db]
    ELSE IF email \in usrs THEN [users |-> usrs, ret |-> "ValueError"]
    ELSE [users |-> usrs \cup {email}, ret |-> "UserModel"]

\* api_create_news, api_create_user: except ValueError -> 400,
\* except Exception -> 500
ApiCreateStatus(ret) ==
    IF ret \in {"NewsModel", "UserModel"} THEN 200
    ELSE IF ret = "ValueError" THEN 400
    ELSE 500

\* -------------------------------------------------------- WatsonAgentClient
\* words of a generated text; an article title stands in it as one word
Very == <<"very">>
Positive == <<"positive">>
Negative == <<"negative">>
Words == {TFed, TEcb, Very, Positive, Negative}

\* what the POST to the WatsonX endpoint does: httpx.RequestError,
\* httpx.HTTPStatusError, or a JSON body (created_at: "" when absent;
\* text: results[0].generated_text)
HttpError(kind) == [kind |-> kind, created_at |-> "", text |-> <<>>]

\* generated texts a batch request is answered with
SampleTexts ==
    {<<>>,
     <<Positive>>,
     <<TFed, Positive>>,
     <<TEcb, Negative, TFed, Very, Positive>>,
     <<TFed, Very, Negative, TEcb>>}

HttpOutcomes ==
    {HttpError("transport_error"), HttpError("status_error")}
        \cup {[kind |-> "answered", created_at |-> c, text |-> t] :
                 c \in {"", "t1"}, t \in SampleTexts}

\* `phrase in text` for a phrase of one or two words
Contains(text, phrase) ==
    \E j \in DOMAIN text :
        /\ j + Len(phrase) - 1 <= Len(text)
        /\ \A k \in DOMAIN phrase : text[j + k - 1] = phrase[k]

\* the chain with the stronger phrase of each side tested first
ParseImpact_StrongFirst(lowered) ==
    IF Contains(lowered, <<Very, Positive>>) THEN "very_positive"
    ELSE IF Contains(lowered, <<Very, Negative>>) THEN "very_negative"
    ELSE IF Contains(lowered, <<Positive>>) THEN "positive"
    ELSE IF Contains(lowered, <<Negative>>) THEN "negative"
    ELSE "unsure"

\* the if/elif chain of _transform_watsonx_response over
\* text_after_title.lower()
ParseImpact(lowered) ==
    IF Contains(lowered, <<Very, Positive>>) THEN "very_positive"
    ELSE IF Contains(lowered, <<Positive>>) THEN "positive"
    ELSE IF Contains(lowered, <<Negative>>) THEN "negative"
    ELSE IF Contains(lowered, <<Very, Negative>>) THEN "very_negative"
    ELSE "unsure"

\* generated_text[generated_text.find(news_title) + len(news_title):]
AfterTitle(generated_text, news_title) ==
    SubSeq(generated_text,
           Min({j \in DOMAIN generated_text :
                   generated_text[j] = news_title}) + 1,
           Len(generated_text))

LowerText(text) == [j \in DOMAIN text |-> Lower(text[j])]

\* str(i) for i >= 0
DigitChars == <<"0", "1", "2", "3", "4", "5", "6", "7", "8", "9">>

RECURSIVE Str(_)
Str(i) ==
    IF i < 10 THEN <<DigitChars[i + 1]>>
    ELSE Str(i \div 10) \o <<DigitChars[(i % 10) + 1]>>

\* f"news_{i}"
NewsIdOf(i) == <<"n", "e", "w", "s", "_">> \o Str(i)

\* the result _transform_watsonx_response builds for item i (from 0)
ResultFor(generated_text, news_title, i) ==
    [news_id |-> NewsIdOf(i),
     impact_prediction |->
         IF \E j \in DOMAIN generated_text : generated_text[j] = news_title
         THEN ParseImpact(LowerText(AfterTitle(generated_text, news_title)))
         ELSE "unsure",
     impact_prediction_justification |->
         IF \E j \in DOMAIN generated_text : generated_text[j] = news_title
         THEN "text" ELSE "none given"]

\* one result per item of the original request, keyed news_<index>
_transform_watsonx_response(watsonx_response, original_request) ==
    [none |-> FALSE,
     results |->
        [i \in DOMAIN original_request |->
            ResultFor(watsonx_response.text, original_request[i].title,
                      i - 1)],
     timestamp |-> watsonx_response.created_at]

\* the types json.dumps encodes
JsonTypes == {"str", "int", "float", "bool", "NoneType", "list", "dict"}

\* the keyword arguments Query.filter(*criterion) accepts
QueryFilterKeywords == {}

\* the return value None of analyze_news
NoResponse == [none |-> TRUE, results |-> <<>>, timestamp |-> ""]

\* analyze_news: json.dumps(news_data["news"]) meets published_date, a
\* datetime (TypeError); db.query(News).filter(user_id=...) passes a keyword
\* (TypeError). Both are before the POST; `except Exception` returns None.
analyze_news(news_data, http) ==
    IF "datetime" \notin JsonTypes THEN NoResponse
    ELSE IF "user_id" \notin QueryFilterKeywords THEN NoResponse
    ELSE IF http.kind # "answered" THEN NoResponse
    ELSE _transform_watsonx_response(http, news_data)

\* ------------------------------------------------------------ NewsProcessor
\* NewsUpdate(impact_prediction=..., impact_prediction_justification=...)
NewsUpdate(label, just) ==
    [given |-> {"impact_prediction", "impact_prediction_justification"},
     title |-> <<>>, label |-> label, just |-> just,
     category_names |-> <<>>]

Max(S) == CHOOSE x \in S : \A y \in S : y <= x

\* WatsonNewsAnalysisResponse(**response_dict): timestamp is a datetime,
\* "" does not validate
WatsonNewsAnalysisResponse(response_dict) ==
    [raised |-> response_dict.timestamp = "",
     results |-> response_dict.results]

\* result.news_id.startswith("news_")
StartsWithNews(news_id) ==
    Len(news_id) >= 5 /\ SubSeq(news_id, 1, 5) = <<"n", "e", "w", "s", "_">>

\* news_id.split("_")[1] for an identifier that starts with news_
SecondPart(news_id) ==
    LET rest == SubSeq(news_id, 6, Len(news_id))
        stops == {k \in DOMAIN rest : rest[k] = "_"}
    IN IF stops = {} THEN rest ELSE SubSeq(rest, 1, Min(stops) - 1)

\* int(digits); -1 stands for ValueError
RECURSIVE IntOf(_)
IntOf(digits) ==
    IF digits = <<>> THEN -1
    ELSE LET last == digits[Len(digits)]
             d == {k \in DOMAIN DigitChars : DigitChars[k] = last}
             front == SubSeq(digits, 1, Len(digits) - 1)
         IN IF d = {} THEN -1
            ELSE IF front = <<>> THEN Min(d) - 1
            ELSE IF IntOf(front) < 0 THEN -1
            ELSE 10 * IntOf(front) + Min(d) - 1

\* the index a result identifier names; -1 when the result is skipped
IndexOf(news_id) ==
    IF StartsWithNews(news_id) THEN IntOf(SecondPart(news_id)) ELSE -1

\* _map_response_to_updates that reads the identifier as a position
\* counted from 1
_map_response_to_updates_FromOne(response, news_list) ==
    LET hit == {i \in DOMAIN response.results :
                  /\ IndexOf(response.results[i].news_id) \in DOMAIN news_list
                  /\ news_list[IndexOf(response.results[i].news_id)].id # 0}
        idOf(i) == news_list[IndexOf(response.results[i].news_id)].id
    IN [id \in {idOf(i) : i \in hit} |->
          LET r == response.results[Max({i \in hit : idOf(i) = id})]
          IN NewsUpdate(r.impact_prediction,
                        r.impact_prediction_justification)]

\* _map_response_to_updates: result news_<index> goes to the id of the
\* article at that index (id 0: None, not in news_map); a later result for
\* the same id replaces an earlier one
_map_response_to_updates(response, news_list) ==
    LET hit == {i \in DOMAIN response.results :
                  /\ IndexOf(response.results[i].news_id) + 1
                         \in DOMAIN news_list
                  /\ news_list[IndexOf(response.results[i].news_id) + 1].id
                         # 0}
        idOf(i) == news_list[IndexOf(response.results[i].news_id) + 1].id
    IN [id \in {idOf(i) : i \in hit} |->
          LET r == response.results[Max({i \in hit : idOf(i) = id})]
          IN NewsUpdate(r.impact_prediction,
                        r.impact_prediction_justification)]

\* process_news_batch, from the check of the response on: {} for no
\* response and for a response that does not parse, otherwise the mapped
\* updates
UpdatesOf(response_dict, news_list) ==
    IF response_dict.none THEN <<>>
    ELSE IF WatsonNewsAnalysisResponse(response_dict).raised THEN <<>>
    ELSE _map_response_to_updates(
             WatsonNewsAnalysisResponse(response_dict), news_list)

\* process_news_batch that keeps what it has when the response is lost: an
\* update for the first article of the list
process_news_batch_Partial(news_list, http) ==
    IF news_list = <<>> \/ news_list[1].id = 0 THEN <<>>
    ELSE [id \in {news_list[1].id} |-> NewsUpdate("unsure", "none given")]

\* process_news_batch: {} for an empty list, else the request is sent and
\* the response handled
process_news_batch(news_list, http) ==
    IF news_list = <<>> THEN <<>>
    ELSE UpdatesOf(analyze_news(news_list, http), news_list)

\* process_single_news, from the returned map on: the update of this
\* article if the map has one, else None
UpdateFor(news_model, updates) ==
    IF news_model.id # 0 /\ news_model.id \in DOMAIN updates
    THEN [none |-> FALSE, update |-> updates[news_model.id]]
    ELSE [none |-> TRUE, update |-> NewsUpdate(NULL, NULL)]

\* WatsonService.process_single_news
process_single_news(news_model, http) ==
    UpdateFor(news_model, process_news_batch(<<news_model>>, http))

\* ----------------------------------------------------------- news_scraper
\* the scrapers scrape_all_news builds, in order
Scrapers ==
    <<"FinancialTimesScraper", "BloombergScraper", "YahooFinanceScraper">>

\* what a scraper meets: get_html returns None (requests.RequestException,
\* caught in get_html) or a page with some article elements
ScraperRuns ==
    {[html |-> "None", elements |-> 0]}
        \cup {[html |-> "page", elements |-> n] : n \in 0..MaxBatch}

\* the dict parse_html builds for an article element:
\* "categories": ["finance", "markets"], a list of str
ParsedArticle(k) == [title |-> TFed, categories |-> "str"]

\* NewsModel(**article): categories is List[CategoryModel]
NewsModelValidates(article) == article.categories = "CategoryModel"

\* get_news: parse_html(None) is []; otherwise NewsModel(**article) for
\* each parsed article, the first ValidationError leaves the method
get_news(run) ==
    LET articles_data == IF run.html = "None" THEN <<>>
                         ELSE [k \in 1..run.elements |-> ParsedArticle(k)]
    IN IF \E k \in DOMAIN articles_data :
              ~NewsModelValidates(articles_data[k])
       THEN [raised |-> TRUE, news |-> <<>>]
       ELSE [raised |-> FALSE, news |-> articles_data]

\* scrape_all_news without the try/except around get_news: the first
\* exception leaves the function
scrape_all_news_NoCatch(runs) ==
    LET bad == {i \in DOMAIN runs : get_news(runs[i]).raised}
    IN IF bad = {}
       THEN [raised |-> FALSE, attempted |-> DOMAIN runs, all_news |-> <<>>]
       ELSE [raised |-> TRUE, attempted |-> 1..Min(bad), all_news |-> <<>>]

\* scrape_all_news: every scraper in turn, try: all_news.extend(get_news())
\* except Exception: log
scrape_all_news(runs) ==
    LET upto[i \in 0..Len(runs)] ==
            IF i = 0 THEN <<>>
            ELSE IF get_news(runs[i]).raised THEN upto[i - 1]
            ELSE upto[i - 1] \o get_news(runs[i]).news
    IN [raised |-> FALSE, attempted |-> DOMAIN runs,
        all_news |-> upto[Len(runs)]]

\* ------------------------------------------------- NewsScraperScheduler
\* default page size of NewsController.get_all
DefaultLimit == 50

\* WatsonService.__init__: self.max_batch_size
max_batch_size == 20

\* _find_existing_news_by_title: the id of the first listed article whose
\* lowercased title equals the lowercased candidate title, 0 for None;
\* any exception of the lookup is logged and None is returned
_find_existing_news_by_title(st, title) ==
    LET r == get_all(st, DefaultLimit, 0)
        hits == {i \in DOMAIN r.value :
                    Lower(r.value[i].title) = Lower(title)}
    IN IF r.raised # "none" THEN 0
       ELSE IF hits = {} THEN 0
       ELSE r.value[Min(hits)].id

\* the keyword arguments run_scrapers passes to NewsCreate(...)
NewsCreateKwargs ==
    {"title", "content", "summary", "published_date", "source", "urls",
     "impact_prediction", "impact_prediction_justification"}

\* what a call of NewsController.update wrote for article id
Written(st, id, r) ==
    [st |-> r.st, written |-> IF r.st.news # st.news THEN {id} ELSE {}]

\* `if update:` NewsController.update(db, news_model.id, update)
ApplyInline(st, id, u) ==
    IF u.none THEN [st |-> st, written |-> {}]
    ELSE Written(st, id, NewsController_update(st, id, u.update))

\* the inline analysis of a saved article: process_single_news, then
\* NewsController.update when an update came back; exceptions are logged
AnalyseInline(st, id, http) ==
    ApplyInline(st, id,
                process_single_news(
                    [id |-> id, title |-> st.news[id].title], http))

\* the candidate's outcome once the analysis is through
Analysed(a) ==
    [st |-> a.st, existing |-> 0, outcome |-> "saved",
     written |-> a.written]

\* after NewsController.create: an exception ends this candidate, a saved
\* article goes to the inline analysis
AfterCreate(c, http) ==
    IF c.ret # "NewsModel"
    THEN [st |-> c.st, existing |-> 0, outcome |-> c.ret, written |-> {}]
    ELSE Analysed(AnalyseInline(c.st, c.id, http))

\* the candidate is new: label it, build NewsCreate, save, analyse
SaveNew(st, cand, http) ==
    \* news.impact_prediction = ImpactType.UNKNOWN
    IF GetAttr(DOMAIN ImpactType, "UNKNOWN") # "none"
    THEN [st |-> st, existing |-> 0, outcome |-> "AttributeError",
          written |-> {}]
    \* NewsCreate(...) without its required fields
    ELSE IF ~(NewsCreateRequired \subseteq NewsCreateKwargs)
    THEN [st |-> st, existing |-> 0, outcome |-> "ValidationError",
          written |-> {}]
    ELSE AfterCreate(
             NewsController_create(
                 st, [title |-> cand.title, url |-> cand.url,
                      category_names |-> <<>>]),
             http)

\* what the deduplicator's answer leads to
Deduplicated(st, cand, http, existing) ==
    IF existing # 0
    THEN [st |-> st, existing |-> existing, outcome |-> "exists",
          written |-> {}]
    ELSE SaveNew(st, cand, http)

\* body of the for loop of run_scrapers for one candidate; every exception
\* is caught by the per-candidate handler and the loop goes on
SaveCandidate(st, cand, http) ==
    Deduplicated(st, cand, http,
                 _find_existing_news_by_title(st, cand.title))

\* the results of the candidates so far and of one more
Collected(prev, one) ==
    [st |-> one.st,
     existing |-> Append(prev.existing, one.existing),
     outcome |-> Append(prev.outcome, one.outcome),
     written |-> prev.written \cup one.written]

\* run_scrapers over the fetched list, candidate by candidate: the store
\* afterwards and, per candidate, what the deduplicator returned and how
\* the save ended
run_scrapers(st, news_list, http) ==
    LET after[i \in 0..Len(news_list)] ==
            IF i = 0
            THEN [st |-> st, existing |-> <<>>, outcome |-> <<>>,
                  written |-> {}]
            ELSE Collected(after[i - 1],
                           SaveCandidate(after[i - 1].st, news_list[i],
                                         http))
    IN after[Len(news_list)]

\* ----------------------------------------------------------- WatsonService
\* process_pending_news that takes every stored article, not the pending
\* ones, and labels it
process_pending_news_AllRows(st, http) ==
    [st |-> [st EXCEPT !.news =
                [id \in DOMAIN st.news |->
                    [st.news[id] EXCEPT !.label = "unsure",
                                        !.just = "none given"]]],
     caught |-> "none", selected |-> DOMAIN st.news,
     sent |-> <<[i \in 1..Cardinality(DOMAIN st.news) |-> i]>>,
     written |-> DOMAIN st.news, raised |-> FALSE]

\* process_pending_news: the first statement of the try block,
\* NewsController.get_by_impact(db, ImpactType.UNKNOWN), raises
\* AttributeError; the handler of the method logs it and the pass ends
\* before a batch is formed or the client is called.
\* selected: ids put into a batch; sent: the batches handed to
\* process_news_batch, in order; written: ids updated
process_pending_news(st, http) ==
    LET q == IF GetAttr(NewsControllerMethods, "get_by_impact") # "none"
             THEN GetAttr(NewsControllerMethods, "get_by_impact")
             ELSE GetAttr(DOMAIN ImpactType, "UNKNOWN")
    IN [st |-> st, caught |-> q, selected |-> {}, sent |-> <<>>,
        written |-> {}, raised |-> FALSE]

\* ---------------------------------------------------------- ReportGenerator
\* count / total > tenths / 10 with the strict comparison of the code
\* (for these sizes the float quotient compares as the exact one does)
RatioAbove_OrEqual(count, total, tenths) == 10 * count >= tenths * total

RatioAbove(count, total, tenths) == 10 * count > tenths * total

\* the chain with the 40% tests before the 60% tests
SentimentOf_PlainFirst(positive_count, negative_count, total) ==
    IF total = 0 THEN "ZeroDivisionError"
    ELSE IF RatioAbove(positive_count, total, 4) THEN "positive"
    ELSE IF RatioAbove(positive_count, total, 6) THEN "strongly positive"
    ELSE IF RatioAbove(negative_count, total, 4) THEN "negative"
    ELSE IF RatioAbove(negative_count, total, 6) THEN "strongly negative"
    ELSE "neutral"

\* the if/elif chain over positive_ratio and negative_ratio; the two
\* divisions by total come first
SentimentOf(positive_count, negative_count, total) ==
    IF total = 0 THEN "ZeroDivisionError"
    ELSE IF RatioAbove(positive_count, total, 6) THEN "strongly positive"
    ELSE IF RatioAbove(positive_count, total, 4) THEN "positive"
    ELSE IF RatioAbove(negative_count, total, 6) THEN "strongly negative"
    ELSE IF RatioAbove(negative_count, total, 4) THEN "negative"
    ELSE "neutral"

\* sum(1 for news in news_items if news.impact_prediction in labels)
CountOf(news_items, labels) ==
    Cardinality({i \in DOMAIN news_items :
                    news_items[i].impact_prediction \in labels})

\* the summary built from the three counts
MarketImpactSummary(p, n, u, overall_sentiment) ==
    [positive_count |-> p, negative_count |-> n, neutral_count |-> u,
     overall_sentiment |-> overall_sentiment]

\* _calculate_impact_statistics without the test `if total == 0`
StatisticsOf_NoGuard(p, n, u) ==
    MarketImpactSummary(p, n, u, SentimentOf(p, n, p + n + u))

\* _calculate_impact_statistics from the three counts on
StatisticsOf(p, n, u) ==
    MarketImpactSummary(p, n, u,
                        IF p + n + u = 0 THEN "neutral"
                        ELSE SentimentOf(p, n, p + n + u))

_calculate_impact_statistics(news_items) ==
    StatisticsOf(
        CountOf(news_items, {ImpactType.POSITIVE, ImpactType.VERY_POSITIVE}),
        CountOf(news_items, {ImpactType.NEGATIVE, ImpactType.VERY_NEGATIVE}),
        CountOf(news_items, {ImpactType.UNSURE}))

\* ------------------------------------------------------------ the two loops
\* start() with `while True`
LoopContinues_Always(flag) == TRUE

\* start(): `while self.is_running`
LoopContinues(flag) == flag

\* start() without the try/except around the iteration
AfterIteration_NoCatch(raised) == IF raised THEN "crashed" ELSE "sleeping"

\* start(): try: await <iteration> / except Exception: log; then the sleep.
\* raised: an exception left the iteration body
AfterIteration(raised) == "sleeping"

\* what scrape_all_news() hands to run_scrapers: a fetched list, or an
\* exception that leaves run_scrapers (the call is outside its try block).
\* run_scrapers is followed for any list of candidates, also for lists the
\* scrapers as written do not deliver (see get_news)
FetchOutcomes ==
    {[raised |-> FALSE, batch |-> b] : b \in Batches}
        \cup {[raised |-> TRUE, batch |-> <<>>]}

\* the endpoint as a loop iteration meets it
LoopHttp ==
    {HttpError("transport_error"),
     [kind |-> "answered", created_at |-> "t1",
      text |-> <<TFed, Positive>>]}

Pending(n) == {id \in DOMAIN n : n[id].label = NULL}

Bump(w, ids) == [id \in Ids |-> IF id \in ids /\ w[id] < 2
                                THEN w[id] + 1 ELSE w[id]]

\* a task of svc leaves position from for position to
Move(t, svc, from, to) ==
    [t EXCEPT ![svc] = [@ EXCEPT ![from] = @ - 1, ![to] = @ + 1]]

\* one iteration of the ingestion loop: await self.run_scrapers()
ScrapeIteration(svc, from, begin) ==
    \E f \in FetchOutcomes, http \in LoopHttp :
        LET r == run_scrapers(Store, f.batch, http)
        IN /\ news' = r.st.news
           /\ cats' = r.st.cats
           /\ urls' = r.st.urls
           /\ writes' = Bump(writes, r.written)
           /\ tasks' = Move(tasks, svc, from, AfterIteration(f.raised))
           /\ event' = [op |-> "scrape", svc |-> svc, begin |-> begin,
                         raised |-> f.raised, batch |-> f.batch,
                         http |-> http.kind, existing |-> r.existing,
                         outcome |-> r.outcome,
                         titles |-> {Lower(news[id].title) :
                                        id \in DOMAIN news},
                         added |-> Cardinality(DOMAIN r.st.news)
                                     - Cardinality(DOMAIN news),
                         written |-> r.written]

\* one iteration of the enrichment loop: await self.process_pending_news()
PassIteration(svc, from, begin) ==
    \E http \in LoopHttp :
        LET r == process_pending_news(Store, http)
        IN /\ news' = r.st.news
           /\ cats' = r.st.cats
           /\ urls' = r.st.urls
           /\ writes' = Bump(writes, r.written)
           /\ tasks' = Move(tasks, svc, from, AfterIteration(r.raised))
           /\ event' = [op |-> "pass", svc |-> svc, begin |-> begin,
                         raised |-> r.raised, caught |-> r.caught,
                         before |-> news, pending |-> Pending(news),
                         labeled |-> DOMAIN news \ Pending(news),
                         selected |-> r.selected, sent |-> r.sent,
                         written |-> r.written, http |-> http.kind]

Iteration(svc, from, begin) ==
    IF svc = "scheduler" THEN ScrapeIteration(svc, from, begin)
    ELSE PassIteration(svc, from, begin)

\* the tasks of svc that have not ended
Live(t, svc) == t[svc]["created"] + t[svc]["sleeping"]

\* asyncio.create_task(...start()) (main.py): the coroutine is scheduled,
\* its body has not run yet
StartCall(svc) ==
    /\ Live(tasks, svc) + tasks[svc]["crashed"] < MaxTasks
    /\ tasks' = [tasks EXCEPT ![svc]["created"] = @ + 1]
    /\ event' = [op |-> "start", svc |-> svc]
    /\ UNCHANGED <<news, cats, urls, is_running, writes, sources, users>>

\* first step of start(): self.is_running = True, the loop test (true) and
\* the first iteration up to the sleep
Begin(svc) ==
    /\ tasks[svc]["created"] > 0
    /\ is_running' = [is_running EXCEPT ![svc] = TRUE]
    /\ Iteration(svc, "created", TRUE)
    /\ UNCHANGED <<sources, users>>

\* the sleep is over: the loop test, then the next iteration or the exit
Wake(svc) ==
    /\ tasks[svc]["sleeping"] > 0
    /\ IF LoopContinues(is_running[svc])
       THEN Iteration(svc, "sleeping", FALSE)
       ELSE /\ tasks' = [tasks EXCEPT ![svc]["sleeping"] = @ - 1]
            /\ event' = [op |-> "exit", svc |-> svc]
            /\ UNCHANGED <<news, cats, urls, writes>>
    /\ UNCHANGED <<is_running, sources, users>>

\* stop(): self.is_running = False
Stop(svc) ==
    /\ is_running' = [is_running EXCEPT ![svc] = FALSE]
    /\ event' = [op |-> "stop", svc |-> svc]
    /\ UNCHANGED <<news, cats, urls, tasks, writes, sources, users>>

\* ------------------------------------------------------------ REST handlers
CreateInputs ==
    {[title |-> Tfed, url |-> u, category_names |-> c] :
        u \in Urls, c \in {<<>>, <<"markets">>}}

UpdateInputs ==
    {[given |-> {"impact_prediction", "impact_prediction_justification"},
      title |-> <<>>, label |-> "negative", just |-> "manual",
      category_names |-> <<>>],
     [given |-> {"impact_prediction"},
      title |-> <<>>, label |-> "unknown", just |-> NULL,
      category_names |-> <<>>],
     [given |-> {"category_names"},
      title |-> <<>>, label |-> NULL, just |-> NULL,
      category_names |-> <<"markets">>],
     [given |-> {"title"},
      title |-> TfedBang, label |-> NULL, just |-> NULL,
      category_names |-> <<>>],
     [given |-> {},
      title |-> <<>>, label |-> NULL, just |-> NULL,
      category_names |-> <<>>]}

\* POST /api/v1/news: api_create_news -> NewsController.create
RestCreate(d) ==
    LET r == NewsController_create(Store, d)
    IN /\ news' = r.st.news
       /\ cats' = r.st.cats
       /\ urls' = r.st.urls
       /\ event' = [op |-> "create", url |-> d.url, d |-> d,
                     dup |-> urls[d.url] # 0, ret |-> r.ret,
                     status |-> ApiCreateStatus(r.ret),
                     added |-> Cardinality(DOMAIN r.st.news)
                                 - Cardinality(DOMAIN news)]
       /\ UNCHANGED <<is_running, tasks, writes, sources, users>>

\* PUT /api/v1/news/{id}: api_update_news -> NewsController.update
RestUpdate(id, d) ==
    LET r == NewsController_update(Store, id, d)
    IN /\ news' = r.st.news
       /\ cats' = r.st.cats
       /\ urls' = r.st.urls
       /\ event' = [op |-> "update", id |-> id, d |-> d, ret |-> r.ret]
       /\ UNCHANGED <<is_running, tasks, writes, sources, users>>

\* POST /api/v1/sources: create_source -> SourceController.create
SourceCreate(codename, db) ==
    LET r == SourceController_create(sources, codename, db)
    IN /\ sources' = r.sources
       /\ event' = [op |-> "source_create", codename |-> codename,
                     db |-> db,
                     dup |-> \E i \in DOMAIN sources :
                                 sources[i].codename = codename,
                     status |-> r.status]
       /\ UNCHANGED <<news, cats, urls, is_running, tasks, writes, users>>

\* PUT /api/v1/sources/{id}: update_source -> SourceController.update
SourceUpdate(source_id, codename, db) ==
    LET r == SourceController_update(sources, source_id, codename, db)
    IN /\ sources' = r.sources
       /\ event' = [op |-> "source_update", id |-> source_id,
                     codename |-> codename, db |-> db, status |-> r.status]
       /\ UNCHANGED <<news, cats, urls, is_running, tasks, writes, users>>

\* DELETE /api/v1/sources/{id}: delete_source -> SourceController.delete
SourceDelete(source_id, referenced, db) ==
    LET r == SourceController_delete(sources, source_id, referenced, db)
    IN /\ sources' = r.sources
       /\ event' = [op |-> "source_delete", id |-> source_id,
                     referenced |-> referenced, db |-> db,
                     status |-> r.status]
       /\ UNCHANGED <<news, cats, urls, is_running, tasks, writes, users>>

\* POST /api/v1/users: api_create_user -> UserController.create
UserCreate(email, db) ==
    LET r == UserController_create(users, email, db)
    IN /\ users' = r.users
       /\ event' = [op |-> "user_create", email |-> email, db |-> db,
                     dup |-> email \in users,
                     status |-> ApiCreateStatus(r.ret)]
       /\ UNCHANGED <<news, cats, urls, is_running, tasks, writes,
                      sources>>

\* ------------------------------------------------------------ specification
SeedRows(id) ==
    {[title |-> SeedTitle(id), label |-> NULL, just |-> NULL,
      updated_at |-> "t0"],
     [title |-> SeedTitle(id), label |-> "positive", just |-> "seed",
      updated_at |-> "t0"]}

\* stored rows: ids are handed out in sequence
SeedNews ==
    UNION {{n \in [1..m -> UNION {SeedRows(id) : id \in 1..m}] :
                \A id \in 1..m : n[id] \in SeedRows(id)} : m \in 0..MaxIds}

\* no start() has been called
Idle ==
    /\ is_running = [s \in Svcs |-> FALSE]
    /\ tasks = [s \in Svcs |-> [p \in Positions |-> 0]]
    /\ writes = [id \in Ids |-> 0]
    /\ sources = <<>>
    /\ users = {}
    /\ event = [op |-> "init"]

\* the pipeline: any stored articles, the loops not yet started
Init ==
    /\ news \in SeedNews
    /\ cats = [n \in CategoryNames |-> 0]
    /\ urls = [u \in Urls |-> 0]
    /\ Idle

Next ==
    \/ \E svc \in Svcs : StartCall(svc)
    \/ \E svc \in Svcs : Begin(svc)
    \/ \E svc \in Svcs : Wake(svc)
    \/ \E svc \in Svcs : Stop(svc)

Spec == Init /\ [][Next]_vars

\* the REST handlers alone, the loops not started: any stored articles,
\* category rows and article URLs
RestInit ==
    /\ news \in SeedNews
    /\ cats \in [CategoryNames -> {0} \cup ({1} \cap DOMAIN news)]
    /\ urls \in {u \in [Urls -> {0} \cup ({1} \cap DOMAIN news)] :
                    u["u2"] = 0}
    /\ Idle

RestNext ==
    \/ \E d \in CreateInputs : RestCreate(d)
    \/ \E id \in Ids, d \in UpdateInputs : RestUpdate(id, d)

RestSpec == RestInit /\ [][RestNext]_vars

\* the create handlers of articles, sources and users
CreateNext ==
    \/ \E d \in CreateInputs : RestCreate(d)
    \/ \E c \in Codenames, db \in DbOutcomes : SourceCreate(c, db)
    \/ \E e \in Emails, db \in DbOutcomes : UserCreate(e, db)

CreateSpec == RestInit /\ [][CreateNext]_vars

\* NewsController.predict_impact: None for an unknown id; else the label
\* and updated_at are assigned and committed; model_validate follows the
\* commit
NewsController_predict_impact(st, news_id, impact_type) ==
    IF news_id \notin DOMAIN st.news
    THEN [st |-> st, ret |-> "None"]
    ELSE [st |-> [st EXCEPT !.news[news_id].label = impact_type,
                            !.news[news_id].updated_at = "now"],
          ret |-> model_validate]

RECURSIVE ApplyUpdates(_, _)
\* process_pending_news, the write-back of a batch:
\* for news_id, update in updates.items(): NewsController.update(db,
\* news_id, update), every exception logged
ApplyUpdates(st, updates) ==
    IF DOMAIN updates = {} THEN st
    ELSE LET news_id == Min(DOMAIN updates)
         IN ApplyUpdates(
                NewsController_update(st, news_id, updates[news_id]).st,
                [id \in DOMAIN updates \ {news_id} |-> updates[id]])

\* POST /api/v1/news/{id}/predict-impact while a pass that has read its
\* pending list awaits the analysis of the batch
PredictImpact(news_id, impact_type) ==
    /\ event.op = "read"
    /\ LET r == NewsController_predict_impact(Store, news_id, impact_type)
       IN /\ news' = r.st.news
          /\ event' = [event EXCEPT
                          !.manual = IF r.ret = "None" THEN @
                                     ELSE @ \cup {news_id}]
    /\ UNCHANGED <<cats, urls, is_running, tasks, writes, sources, users>>

\* the pass goes on after the await: the updates of the batch are applied
WriteBack ==
    /\ event.op = "read"
    /\ news' = ApplyUpdates(Store, event.updates).news
    /\ event' = [event EXCEPT !.op = "written", !.before = news]
    /\ UNCHANGED <<cats, urls, is_running, tasks, writes, sources, users>>

\* a pass has read the pending articles of the store and holds an update
\* for each of them, as process_news_batch returns them for an answered
\* request
WriteBackInit ==
    /\ news \in SeedNews
    /\ cats = [n \in CategoryNames |-> 0]
    /\ urls = [u \in Urls |-> 0]
    /\ is_running = [s \in Svcs |-> FALSE]
    /\ tasks = [s \in Svcs |-> [p \in Positions |-> 0]]
    /\ writes = [id \in Ids |-> 0]
    /\ sources = <<>>
    /\ users = {}
    /\ \E u \in [Pending(news) ->
                     {NewsUpdate(ImpactType.NEGATIVE, "watson"),
                      NewsUpdate(ImpactType.UNSURE, "watson")}] :
          event = [op |-> "read", updates |-> u, manual |-> {},
                   before |-> news]

WriteBackNext ==
    \/ \E id \in Ids :
          \E t \in {ImpactType.POSITIVE, ImpactType.VERY_NEGATIVE} :
              PredictImpact(id, t)
    \/ WriteBack

WriteBackSpec == WriteBackInit /\ [][WriteBackNext]_vars

\* the source handlers, in any order, on a table of up to MaxSources rows
SourceNext ==
    \/ \E c \in Codenames, db \in DbOutcomes :
          Len(sources) < MaxSources /\ SourceCreate(c, db)
    \/ \E id \in 1..MaxSources, c \in Codenames \cup {NULL} :
          \E db \in DbOutcomes : SourceUpdate(id, c, db)
    \/ \E id \in 1..MaxSources, referenced \in BOOLEAN :
          \E db \in DbOutcomes : SourceDelete(id, referenced, db)

SourceSpec == RestInit /\ [][SourceNext]_vars

\* the two loops over a store with one pending article
LoopInit ==
    /\ Init
    /\ news = [id \in Ids |-> IF id = 1
                              THEN [title |-> SeedTitle(id), label |-> NULL,
                                    just |-> NULL, updated_at |-> "t0"]
                              ELSE [title |-> SeedTitle(id),
                                    label |-> "positive", just |-> "seed",
                                    updated_at |-> "t0"]]

\* the event loop runs every task that is ready: a created task gets its
\* first step and a sleeping task is woken when its interval has passed
FairSpec ==
    /\ LoopInit
    /\ [][Next]_vars
    /\ \A svc \in Svcs : WF_vars(Begin(svc)) /\ WF_vars(Wake(svc))

\* process_news_batch called on its own: a list of NewsModel (id 0: None)
\* and the endpoint as that call meets it
NewsModels ==
    {[id |-> i, title |-> IF i = 0 THEN Tfed ELSE SeedTitle(i)] :
        i \in 0..MaxIds}

NewsLists == UNION {[1..n -> NewsModels] : n \in 0..MaxBatch}

\* the call is made with the arguments drawn at the start
BatchCall ==
    /\ event.op = "call"
    /\ event' = [event EXCEPT
                    !.op = "batch",
                    !.updates = process_news_batch(event.news_list,
                                                   event.http)]
    /\ UNCHANGED <<news, cats, urls, is_running, tasks, writes, sources,
                   users>>

BatchInit ==
    /\ news = <<>>
    /\ cats = [n \in CategoryNames |-> 0]
    /\ urls = [u \in Urls |-> 0]
    /\ is_running = [s \in Svcs |-> FALSE]
    /\ tasks = [s \in Svcs |-> [p \in Positions |-> 0]]
    /\ writes = [id \in Ids |-> 0]
    /\ sources = <<>>
    /\ users = {}
    /\ event \in {[op |-> "call", news_list |-> l, http |-> h,
                     updates |-> <<>>] :
                        l \in NewsLists, h \in HttpOutcomes}

BatchNext == BatchCall

BatchSpec == BatchInit /\ [][BatchNext]_vars

\* the response handling of process_news_batch on its own: the list sent
\* and the response dict the client has built for it from an answer
Answers == {h \in HttpOutcomes : h.kind = "answered"}

\* process_news_batch from `if not response_dict` on, next to what the
\* whole call returns for the same list and answer
MapCall ==
    /\ event.op = "map_call"
    /\ event' = [event EXCEPT
                    !.op = "mapped",
                    !.updates = UpdatesOf(event.response, event.news_list),
                    !.returned = process_news_batch(event.news_list,
                                                    event.http)]
    /\ UNCHANGED <<news, cats, urls, is_running, tasks, writes, sources,
                   users>>

MapInit ==
    /\ news = <<>>
    /\ cats = [n \in CategoryNames |-> 0]
    /\ urls = [u \in Urls |-> 0]
    /\ is_running = [s \in Svcs |-> FALSE]
    /\ tasks = [s \in Svcs |-> [p \in Positions |-> 0]]
    /\ writes = [id \in Ids |-> 0]
    /\ sources = <<>>
    /\ users = {}
    /\ event \in {[op |-> "map_call", news_list |-> l, http |-> h,
                     response |-> _transform_watsonx_response(h, l),
                     updates |-> <<>>, returned |-> <<>>] :
                        l \in NewsLists, h \in Answers}

MapNext == MapCall

MapSpec == MapInit /\ [][MapNext]_vars

\* the parsing of one generated text for one article title
Texts == UNION {[1..n -> Words] : n \in 0..MaxText}

ParseCall ==
    /\ event.op = "parse_call"
    /\ event' = [event EXCEPT
                    !.op = "parsed",
                    !.result = ResultFor(event.text, event.title, 0)]
    /\ UNCHANGED <<news, cats, urls, is_running, tasks, writes, sources,
                   users>>

ParseInit ==
    /\ news = <<>>
    /\ cats = [n \in CategoryNames |-> 0]
    /\ urls = [u \in Urls |-> 0]
    /\ is_running = [s \in Svcs |-> FALSE]
    /\ tasks = [s \in Svcs |-> [p \in Positions |-> 0]]
    /\ writes = [id \in Ids |-> 0]
    /\ sources = <<>>
    /\ users = {}
    /\ event \in {[op |-> "parse_call", text |-> t, title |-> ti,
                     result |-> [news_id |-> <<>>, impact_prediction |-> "",
                                 impact_prediction_justification |-> ""]] :
                        t \in Texts, ti \in {TFed, TEcb}}

ParseNext == ParseCall

ParseSpec == ParseInit /\ [][ParseNext]_vars

\* one call of scrape_all_news, each scraper meeting its own site
ScrapeAllCall ==
    /\ event.op = "scrape_all_call"
    /\ event' = [event EXCEPT
                    !.op = "scraped_all",
                    !.got = [i \in DOMAIN event.runs |->
                                get_news(event.runs[i])],
                    !.ret = scrape_all_news(event.runs)]
    /\ UNCHANGED <<news, cats, urls, is_running, tasks, writes, sources,
                   users>>

ScrapeAllInit ==
    /\ news = <<>>
    /\ cats = [n \in CategoryNames |-> 0]
    /\ urls = [u \in Urls |-> 0]
    /\ is_running = [s \in Svcs |-> FALSE]
    /\ tasks = [s \in Svcs |-> [p \in Positions |-> 0]]
    /\ writes = [id \in Ids |-> 0]
    /\ sources = <<>>
    /\ users = {}
    /\ event \in {[op |-> "scrape_all_call", runs |-> r, got |-> <<>>,
                     ret |-> [raised |-> FALSE, attempted |-> {},
                              all_news |-> <<>>]] :
                        r \in [DOMAIN Scrapers -> ScraperRuns]}

ScrapeAllNext == ScrapeAllCall

ScrapeAllSpec == ScrapeAllInit /\ [][ScrapeAllNext]_vars

\* _calculate_impact_statistics on the articles of a report window
LabelOrder ==
    <<ImpactType.VERY_POSITIVE, ImpactType.POSITIVE, ImpactType.UNSURE,
      ImpactType.NEGATIVE, ImpactType.VERY_NEGATIVE, NULL>>

\* the label of article i of a window holding counts[k] articles of the
\* k-th label
LabelAt(counts, i) ==
    LabelOrder[Min({k \in DOMAIN LabelOrder :
                       i <= counts[1] + (IF k >= 2 THEN counts[2] ELSE 0)
                            + (IF k >= 3 THEN counts[3] ELSE 0)
                            + (IF k >= 4 THEN counts[4] ELSE 0)
                            + (IF k >= 5 THEN counts[5] ELSE 0)
                            + (IF k >= 6 THEN counts[6] ELSE 0)})]

WindowOf(counts) ==
    [i \in 1..(counts[1] + counts[2] + counts[3] + counts[4] + counts[5]
                  + counts[6]) |-> [impact_prediction |-> LabelAt(counts, i)]]

StatsCall ==
    /\ event.op = "stats_call"
    /\ event' = [event EXCEPT
                    !.op = "stats",
                    !.stats = _calculate_impact_statistics(event.news_items)]
    /\ UNCHANGED <<news, cats, urls, is_running, tasks, writes, sources,
                   users>>

StatsInit ==
    /\ news = <<>>
    /\ cats = [n \in CategoryNames |-> 0]
    /\ urls = [u \in Urls |-> 0]
    /\ is_running = [s \in Svcs |-> FALSE]
    /\ tasks = [s \in Svcs |-> [p \in Positions |-> 0]]
    /\ writes = [id \in Ids |-> 0]
    /\ sources = <<>>
    /\ users = {}
    /\ \E c1 \in 0..MaxNews : \E c2 \in 0..(MaxNews - c1) :
         \E c3 \in 0..(MaxNews - c1 - c2) :
         \E c4 \in 0..(MaxNews - c1 - c2 - c3) :
         \E c5 \in 0..(MaxNews - c1 - c2 - c3 - c4) :
         \E c6 \in 0..(MaxNews - c1 - c2 - c3 - c4 - c5) :
            event = [op |-> "stats_call",
                     news_items |-> WindowOf(<<c1, c2, c3, c4, c5, c6>>),
                     stats |-> MarketImpactSummary(0, 0, 0, "")]

StatsNext == StatsCall

StatsSpec == StatsInit /\ [][StatsNext]_vars

\* the statistics of a week's window: up to WindowSize articles, each with
\* a positive or a negative label
WeekInit ==
    /\ news = <<>>
    /\ cats = [n \in CategoryNames |-> 0]
    /\ urls = [u \in Urls |-> 0]
    /\ is_running = [s \in Svcs |-> FALSE]
    /\ tasks = [s \in Svcs |-> [p \in Positions |-> 0]]
    /\ writes = [id \in Ids |-> 0]
    /\ sources = <<>>
    /\ users = {}
    /\ \E c1 \in 0..WindowSize : \E c2 \in 0..(WindowSize - c1) :
         \E c4 \in 0..(WindowSize - c1 - c2) :
         \E c5 \in 0..(WindowSize - c1 - c2 - c4) :
            event = [op |-> "stats_call",
                     news_items |-> WindowOf(<<c1, c2, 0, c4, c5, 0>>),
                     stats |-> MarketImpactSummary(0, 0, 0, "")]

WeekSpec == WeekInit /\ [][StatsNext]_vars

\* ------------------------------------------------- the weekly report
\* dates are days, counted from a day zero; NewsModel items are
\* [id, published_at, impact_prediction, categories], category names are
\* texts
\* news_importance_score: the impact_score dictionary with its default
ImpactScore(label) ==
    CASE label \in {ImpactType.VERY_POSITIVE, ImpactType.VERY_NEGATIVE} -> 5
      [] label \in {ImpactType.POSITIVE, ImpactType.NEGATIVE} -> 4
      [] OTHER -> 3

\* seven times recency_score = max(0, 7 - days_old) / 7
RecencySevenths(today, published_at) ==
    LET days_old == today - published_at
    IN IF 7 - days_old > 0 THEN 7 - days_old ELSE 0

\* seventy times impact_score * 0.7 + recency_score * 0.3
news_importance_score(n, today) ==
    49 * ImpactScore(n.impact_prediction)
        + 3 * RecencySevenths(today, n.published_at)

RECURSIVE Sorted(_, _)
\* sorted(news_items, key=news_importance_score, reverse=True): stable, so
\* the last element goes, in the sorted rest, behind the elements of
\* greater or equal score
Sorted(news_items, today) ==
    IF news_items = <<>> THEN <<>>
    ELSE LET n == news_items[Len(news_items)]
             sorted_news == Sorted(SubSeq(news_items, 1,
                                          Len(news_items) - 1), today)
             k == Cardinality(
                      {i \in DOMAIN sorted_news :
                          news_importance_score(sorted_news[i], today)
                              >= news_importance_score(n, today)})
         IN SubSeq(sorted_news, 1, k) \o <<n>>
                \o SubSeq(sorted_news, k + 1, Len(sorted_news))

\* _select_top_news: the first max_items of the sorted list, each turned
\* into a WeeklyReportNewsItem, whose impact_prediction is a required
\* ImpactType
_select_top_news(news_items, max_items, today) ==
    LET sorted_news == Sorted(news_items, today)
        top == SubSeq(sorted_news, 1,
                      IF max_items < Len(sorted_news)
                      THEN max_items ELSE Len(sorted_news))
    IN IF \E i \in DOMAIN top : top[i].impact_prediction = NULL
       THEN [raised |-> "ValidationError", top_news |-> <<>>]
       ELSE [raised |-> "none", top_news |-> top]

NoReport ==
    [raised |-> "none", filtered_news |-> <<>>,
     market_impact |-> MarketImpactSummary(0, 0, 0, ""), top_news |-> <<>>]

\* ReportGenerator.generate_weekly_report: the date filter, the category
\* filter when categories are given (any(cat.name.lower() in [c.lower()
\* for c in categories_of_interest] for cat in news.categories)), the
\* statistics and the top news
generate_weekly_report(news_items, start_date, end_date, max_news_items, categories_of_interest, today) ==
    LET InPeriod(n) == start_date <= n.published_at
                        /\ n.published_at <= end_date
        dated == SelectSeq(news_items, InPeriod)
        Wanted(n) ==
            \E cat \in n.categories :
                \E j \in DOMAIN categories_of_interest :
                    Lower(cat) = Lower(categories_of_interest[j])
        filtered_news == IF categories_of_interest # <<>>
                         THEN SelectSeq(dated, Wanted) ELSE dated
        top == _select_top_news(filtered_news, max_news_items, today)
    IN [raised |-> top.raised,
        filtered_news |-> filtered_news,
        market_impact |-> IF top.raised = "none"
                          THEN _calculate_impact_statistics(filtered_news)
                          ELSE NoReport.market_impact,
        top_news |-> top.top_news]

\* WatsonService.generate_weekly_report: the default period, then
\* NewsController.get_all(db, limit=500), the date filter and the
\* generator; request.given names the dates the request carries
WatsonService_generate_weekly_report(st, request, today) ==
    LET end_date == IF "end_date" \in request.given
                    THEN request.end_date ELSE today
        start_date == IF "start_date" \in request.given
                      THEN request.start_date ELSE end_date - 7
        all_news == get_all(st, 500, 0)
        InRange(n) == start_date <= n.published_at
                       /\ n.published_at <= end_date
    IN IF all_news.raised # "none"
       THEN [NoReport EXCEPT !.raised = all_news.raised]
       ELSE generate_weekly_report(SelectSeq(all_news.value, InRange),
                                   start_date, end_date,
                                   request.max_news_items,
                                   request.categories_of_interest, today)

\* the articles handed to the generator: published today, 3, 7 and 8 days
\* ago and tomorrow, with and without a label
ArticleKinds ==
    {[published_at |-> 0, impact_prediction |-> ImpactType.VERY_NEGATIVE,
      categories |-> {TFed}],
     [published_at |-> -3, impact_prediction |-> ImpactType.POSITIVE,
      categories |-> {}],
     [published_at |-> -8, impact_prediction |-> ImpactType.VERY_POSITIVE,
      categories |-> {TFed}],
     [published_at |-> 0, impact_prediction |-> ImpactType.UNSURE,
      categories |-> {}],
     [published_at |-> -3, impact_prediction |-> NULL,
      categories |-> {TEcb}],
     [published_at |-> 1, impact_prediction |-> ImpactType.NEGATIVE,
      categories |-> {}],
     [published_at |-> -7, impact_prediction |-> ImpactType.POSITIVE,
      categories |-> {TFed}],
     [published_at |-> -3, impact_prediction |-> ImpactType.NEGATIVE,
      categories |-> {}]}

NewsItems ==
    UNION {{[i \in 1..n |-> [id |-> i,
                              published_at |-> k[i].published_at,
                              impact_prediction |-> k[i].impact_prediction,
                              categories |-> k[i].categories]] :
                k \in [1..n -> ArticleKinds]} : n \in 0..MaxItems}

\* the periods and sizes asked for: the last week or a month up to
\* tomorrow, all categories or one
GenerateInputs ==
    {[start_date |-> -7, end_date |-> 0, max_news_items |-> k,
      categories_of_interest |-> <<>>] : k \in 1..2}
    \cup {[start_date |-> -30, end_date |-> 1, max_news_items |-> k,
           categories_of_interest |-> <<>>] : k \in 1..2}
    \cup {[start_date |-> -30, end_date |-> 1, max_news_items |-> 2,
           categories_of_interest |-> <<Tfed>>]}

GenerateCall ==
    /\ event.op = "generate_call"
    /\ event' = [event EXCEPT
                    !.op = "generated",
                    !.report = generate_weekly_report(
                                   event.news_items, event.d.start_date,
                                   event.d.end_date, event.d.max_news_items,
                                   event.d.categories_of_interest,
                                   event.today)]
    /\ UNCHANGED <<news, cats, urls, is_running, tasks, writes, sources,
                   users>>

GenerateInit ==
    /\ news = <<>>
    /\ cats = [n \in CategoryNames |-> 0]
    /\ urls = [u \in Urls |-> 0]
    /\ is_running = [s \in Svcs |-> FALSE]
    /\ tasks = [s \in Svcs |-> [p \in Positions |-> 0]]
    /\ writes = [id \in Ids |-> 0]
    /\ sources = <<>>
    /\ users = {}
    /\ \E items \in NewsItems, d \in GenerateInputs :
            event = [op |-> "generate_call", news_items |-> items, d |-> d,
                     today |-> 0, report |-> NoReport]

GenerateSpec == GenerateInit /\ [][GenerateCall]_vars

\* the bodies of POST /api/v1/reports/weekly
ReportRequests ==
    {[given |-> g, start_date |-> -30, end_date |-> 1,
      max_news_items |-> k, categories_of_interest |-> c] :
        g \in SUBSET {"start_date", "end_date"}, k \in {5, 10},
        c \in {<<>>, <<Tfed>>}}

\* POST /api/v1/reports/weekly: ReportController.generate_weekly_report ->
\* watson_service.generate_weekly_report; any exception becomes a 500
Report(request) ==
    LET r == WatsonService_generate_weekly_report(Store, request, 0)
    IN /\ event' = [op |-> "report", request |-> request,
                     stored |-> DOMAIN news,
                     status |-> IF r.raised = "none" THEN 200 ELSE 500,
                     report |-> r]
       /\ UNCHANGED <<news, cats, urls, is_running, tasks, writes, sources,
                      users>>

ReportSpec ==
    RestInit /\ [][\E request \in ReportRequests : Report(request)]_vars

\* ------------------------------------------------------------------ claims
\* C1: NewsController.create called with a URL that a stored article
\* already has fails with the validation error (ValueError) and adds no
\* article row.
C1_DuplicateUrlRejected ==
    (event.op = "create" /\ event.dup)
        => (event.ret = "ValueError" /\ event.added = 0)

\* the lowercased titles the deduplicator has to know when it meets
\* candidate i of a cycle: those stored before the cycle and those of the
\* candidates before i
KnownTitles(i) ==
    event.titles \cup {Lower(event.batch[j].title) : j \in 1..(i - 1)}

\* C2: _find_existing_news_by_title reports a candidate as already stored
\* exactly when a stored article has the same title after lowercasing.
C2_DedupByLowercasedTitle ==
    event.op = "scrape"
        => \A i \in DOMAIN event.batch :
              (event.existing[i] # 0)
                  <=> (Lower(event.batch[i].title) \in KnownTitles(i))

\* C3: one run_scrapers cycle adds exactly one article row per distinct
\* lowercased title of the batch that was not stored before (3 candidates,
\* two of them sharing a lowercased title: 2 new rows).
C3_OneRowPerDistinctTitle ==
    (event.op = "scrape" /\ ~event.raised)
        => event.added =
             Cardinality({Lower(event.batch[i].title) :
                             i \in DOMAIN event.batch} \ event.titles)

\* C4: an enrichment pass never writes the label unknown: what it writes
\* is a terminal label, and an article that has a terminal label when the
\* pass starts is neither selected nor modified by it.
C4_LabeledUntouched ==
    event.op = "pass"
        => /\ \A id \in event.written : news[id].label \in ImpactValues
           /\ \A id \in DOMAIN news : news[id].label # "unknown"
           /\ event.selected \cap event.labeled = {}
           /\ \A id \in event.labeled :
                 id \in DOMAIN news /\ news[id] = event.before[id]

\* a pass has run over a store holding a labeled and a pending article
C4_Witness ==
    /\ event.op = "pass"
    /\ event.labeled # {}
    /\ event.pending # {}

\* C5: the inline analysis of the ingestion cycle writes the label of each
\* newly stored article exactly once, from unknown to a terminal label:
\* after a cycle whose analysis requests were answered, every candidate
\* that was not stored before has an article with a terminal label that
\* was written once.
C5_LabelWrittenOnce ==
    (event.op = "scrape" /\ ~event.raised /\ event.http = "answered")
        => \A i \in DOMAIN event.batch :
              Lower(event.batch[i].title) \notin event.titles
                  => \E id \in DOMAIN news :
                        /\ Lower(news[id].title)
                               = Lower(event.batch[i].title)
                        /\ news[id].label \in ImpactValues
                        /\ writes[id] = 1

ListIds(news_list) == {news_list[i].id : i \in DOMAIN news_list} \ {0}

\* C7: process_news_batch is all-or-nothing: on a transport failure, an
\* error status or a response that does not parse the update map is empty,
\* and a map that is not empty has an update for every article of the list.
C7_AllOrNothing ==
    event.op = "batch"
        => /\ (event.http.kind # "answered" \/ event.http.created_at = "")
                 => DOMAIN event.updates = {}
           /\ DOMAIN event.updates \in {{}, ListIds(event.news_list)}

\* the call was made with two articles while the endpoint could not be
\* reached, and returned the empty map
C7_Witness ==
    /\ event.op = "batch"
    /\ event.http.kind = "transport_error"
    /\ Cardinality(ListIds(event.news_list)) = 2
    /\ DOMAIN event.updates = {}

\* an enrichment pass whose analysis request would be answered
AnsweredPass == event.op = "pass" /\ event.http = "answered"

\* C8: if the enrichment loop keeps ticking and the analysis service keeps
\* answering, every stored article without a terminal label is eventually
\* given one.
C8_PendingEventuallyLabeled ==
    ([]<>AnsweredPass)
        => \A id \in Ids :
              [](id \in Pending(news)
                    => <>(id \in DOMAIN news
                            /\ news[id].label \in ImpactValues))

\* C9: an exception raised inside an iteration of either loop does not end
\* the loop: no task of a loop is ever ended by an exception, and after an
\* iteration that raised the task is at its sleep.
C9_ExceptionKeepsLoop ==
    /\ \A svc \in Svcs : tasks[svc]["crashed"] = 0
    /\ (event.op \in {"scrape", "pass"} /\ event.raised)
          => tasks[event.svc]["sleeping"] > 0

\* an ingestion iteration raised (the fetch failed) and its task sleeps
C9_Witness ==
    /\ event.op = "scrape"
    /\ event.raised
    /\ tasks["scheduler"]["sleeping"] > 0
    /\ is_running["scheduler"]

\* an iteration that is not the first of a start() call runs only under
\* a set flag (Wake leaves the flag as the loop test read it)
IterationUnderFlag ==
    (event.op \in {"scrape", "pass"} /\ ~event.begin)
        => is_running[event.svc]

\* stop() interrupts nothing: the step that records it moves no task
StopMovesNoTask == event'.op = "stop" => tasks' = tasks

\* C10: the stop flag is honoured between iterations: with the flag
\* cleared a loop begins no further iteration unless start() runs again,
\* every task of the loop eventually ends, and stop() itself interrupts
\* no iteration or sleep.
C10_StopHonoured ==
    /\ []IterationUnderFlag
    /\ [][StopMovesNoTask]_vars
    /\ \A svc \in Svcs :
          (~is_running[svc] /\ tasks[svc]["created"] = 0)
              ~> (tasks[svc]["sleeping"] = 0 \/ is_running[svc])

\* stop() was called while a task was asleep; the task woke, read the
\* cleared flag and ended
C10_Witness ==
    /\ event.op = "exit"
    /\ ~is_running[event.svc]
    /\ Live(tasks, event.svc) = 0

\* C11: in one enrichment pass the pending articles are partitioned into
\* batches of at most max_batch_size: every article that is pending when
\* the pass starts is in exactly one batch sent to the analysis client, and
\* no batch is empty or longer than max_batch_size.
C11_PendingPartitioned ==
    event.op = "pass"
        => /\ \A id \in event.pending :
                 Cardinality({k \in DOMAIN event.sent :
                                 \E j \in DOMAIN event.sent[k] :
                                     event.sent[k][j] = id}) = 1
           /\ \A k \in DOMAIN event.sent :
                 Len(event.sent[k]) \in 1..max_batch_size

\* the update made from the result that carries identifier news_<i>
ResultUpdate(results, i) ==
    LET k == CHOOSE k \in DOMAIN results : results[k].news_id = NewsIdOf(i)
    IN NewsUpdate(results[k].impact_prediction,
                  results[k].impact_prediction_justification)

\* position i is the last one of the list that holds its article
LastOf(news_list, i) ==
    \A j \in DOMAIN news_list : news_list[j].id = news_list[i].id => j <= i

Following ==
    IF \E j \in DOMAIN event.text : event.text[j] = event.title
    THEN LET first == CHOOSE j \in DOMAIN event.text :
                          /\ event.text[j] = event.title
                          /\ \A k \in 1..(j - 1) :
                                event.text[k] # event.title
         IN [k \in 1..(Len(event.text) - first) |->
                event.text[first + k]]
    ELSE <<>>

\* phrase p stands in the words that follow the title
Follows(p) ==
    \E j \in 1..(Len(Following) - Len(p) + 1) :
        \A k \in DOMAIN p : Following[j + k - 1] = p[k]

\* C13: the label is decided by the first of "very positive", "positive",
\* "negative", "very negative", in this order, that occurs in the text
\* following the title; it is unsure when none occurs and when the title
\* is not in the text.
C13_KeywordPriority ==
    event.op = "parsed"
        => event.result.impact_prediction =
             CASE Follows(<<Very, Positive>>) -> "very_positive"
               [] ~Follows(<<Very, Positive>>) /\ Follows(<<Positive>>)
                    -> "positive"
               [] ~Follows(<<Positive>>) /\ Follows(<<Negative>>)
                    -> "negative"
               [] ~Follows(<<Positive>>) /\ ~Follows(<<Negative>>)
                    /\ Follows(<<Very, Negative>>) -> "very_negative"
               [] OTHER -> "unsure"

\* a text with "very negative" after the title was parsed: "negative"
\* comes first in the order and decides
C13_Witness ==
    /\ event.op = "parsed"
    /\ event.text = <<TFed, Very, Negative>>
    /\ event.title = TFed
    /\ event.result.impact_prediction = "negative"

\* the articles of the scrapers up to the i-th that did not fail
RECURSIVE Delivered(_)
Delivered(i) ==
    IF i = 0 THEN <<>>
    ELSE IF event.got[i].raised THEN Delivered(i - 1)
    ELSE Delivered(i - 1) \o event.got[i].news

\* C14: scrape_all_news attempts every scraper and does not raise; a
\* scraper that fails contributes no article, a scraper whose fetch fails
\* returns the empty list, and the articles returned are those of the
\* scrapers that did not fail, in order.
C14_FetchIsolated ==
    event.op = "scraped_all"
        => /\ ~event.ret.raised
           /\ event.ret.attempted = DOMAIN Scrapers
           /\ event.ret.all_news = Delivered(Len(Scrapers))
           /\ \A i \in DOMAIN Scrapers :
                 event.runs[i].html = "None"
                     => ~event.got[i].raised /\ event.got[i].news = <<>>

\* the first scraper failed on an article it had parsed, the second
\* could not fetch its page, the third was still run
C14_Witness ==
    /\ event.op = "scraped_all"
    /\ event.got[1].raised
    /\ event.runs[2].html = "None"
    /\ event.runs[3].html = "page"
    /\ ~event.got[3].raised
    /\ event.ret.attempted = {1, 2, 3}

\* a create or update call that ended in an exception left the three
\* tables as they were
FailedCallKeepsStore ==
    (event'.op \in {"create", "update"}
        /\ event'.ret \notin {"NewsModel", "None"})
      => (news' = news /\ cats' = cats /\ urls' = urls)

\* C15: a create or update call that fails leaves no write behind: the
\* article table, the category table and the URL table equal their state
\* before the call.
C15_FailedCallNoWrite == [][FailedCallKeepsStore]_vars

\* the call named categories and got as far as the get-or-create loop
NamedCategories ==
    /\ event.op \in {"create", "update"}
    /\ event.op = "update"
          => (event.ret # "None" /\ "category_names" \in event.d.given)

\* C17: get-or-create of categories by name: after a create or update
\* call that names categories every named category has its row (the
\* existing one, or the one the call created), one per name.
C17_CategoryGetOrCreate ==
    NamedCategories
        => \A n \in NameSet(event.d.category_names) : cats[n] # 0

\* the article fields an update may supply, with the model's field names
Supplied(d) ==
    [title |-> "title" \in d.given,
     label |-> "impact_prediction" \in d.given,
     just |-> "impact_prediction_justification" \in d.given]

\* what an update call did to the article table
UpdateFrame ==
    event'.op = "update"
      => LET id == event'.id
             d == event'.d
         IN /\ DOMAIN news' = DOMAIN news
            /\ \A other \in DOMAIN news \ {id} : news'[other] = news[other]
            /\ id \notin DOMAIN news
                  => (event'.ret = "None" /\ news' = news /\ cats' = cats)
            /\ (id \in DOMAIN news /\ news'[id] # news[id])
                  => /\ news'[id].updated_at = "now"
                     /\ \A f \in DOMAIN Supplied(d) :
                           news'[id][f] = IF Supplied(d)[f] THEN d[f]
                                          ELSE news[id][f]
            /\ (id \in DOMAIN news /\ event'.ret = model_validate)
                  => news'[id].updated_at = "now"

C16_UniquenessIs400 ==
    event.op \in {"create", "source_create", "user_create"}
        => IF event.op # "create" /\ event.db # "ok"
           THEN event.status = 500
           ELSE event.dup => event.status = 400

\* the articles of the window that carry one of the labels
Labeled(labels) ==
    {i \in DOMAIN event.news_items :
        event.news_items[i].impact_prediction \in labels}

\* C19: the statistics of a window without articles (and of a window in
\* which no article has a label) are three counts of zero and the overall
\* sentiment neutral; no window makes the computation divide by zero.
C19_EmptyWindowNeutral ==
    event.op = "stats"
        => /\ event.stats.overall_sentiment # "ZeroDivisionError"
           /\ Labeled(ImpactValues) = {}
                 => event.stats = MarketImpactSummary(0, 0, 0, "neutral")

\* the statistics of the window without articles have been computed
C19_Witness ==
    /\ event.op = "stats"
    /\ event.news_items = <<>>
    /\ event.stats.overall_sentiment = "neutral"

\* the share of the counted articles that carry one of the labels is
\* above num/5, strictly
ShareAbove(labels, num) ==
    5 * Cardinality(Labeled(labels))
        > num * Cardinality(Labeled(ImpactValues))

PositiveLabels == {"positive", "very_positive"}
NegativeLabels == {"negative", "very_negative"}

\* C20: for a window with counted articles the overall sentiment follows
\* the thresholds: a positive (negative) share above 60% gives strongly
\* positive (strongly negative); a share above 40% and not above 60%
\* gives the plain label of its side (one of the two plain labels when
\* both shares are in that range); otherwise neutral. A share of exactly
\* 60% or 40% is not above the threshold.
C20_SentimentThresholds ==
    (event.op = "stats" /\ Labeled(ImpactValues) # {})
        => event.stats.overall_sentiment \in
             (CASE ShareAbove(PositiveLabels, 3) -> {"strongly positive"}
                [] ShareAbove(NegativeLabels, 3) -> {"strongly negative"}
                [] OTHER ->
                     IF ~ShareAbove(PositiveLabels, 2)
                            /\ ~ShareAbove(NegativeLabels, 2)
                     THEN {"neutral"}
                     ELSE (IF ShareAbove(PositiveLabels, 2)
                           THEN {"positive"} ELSE {})
                          \cup (IF ShareAbove(NegativeLabels, 2)
                                THEN {"negative"} ELSE {}))

\* three of five counted articles are positive: exactly 60%, which is not
\* above the threshold, so the sentiment is positive
C20_Witness ==
    /\ event.op = "stats"
    /\ Cardinality(Labeled(ImpactValues)) = 5
    /\ Cardinality(Labeled(PositiveLabels)) = 3
    /\ event.stats.overall_sentiment = "positive"

\* the statistics of a window of 15 articles, 12 with a positive and 3
\* with a negative label, have been computed
TwelveOfFifteen ==
    /\ event.op = "stats"
    /\ Len(event.news_items) = 15
    /\ Cardinality(Labeled(PositiveLabels)) = 12
    /\ Cardinality(Labeled(NegativeLabels)) = 3

\* C21 as stated: a window of 12 positive-labeled and 3 negative-labeled
\* articles yields the overall sentiment positive.
C21_TwelveOfFifteenPositive ==
    TwelveOfFifteen => event.stats.overall_sentiment = "positive"

\* C21, amended: a window of 12 positive-labeled and 3 negative-labeled
\* articles yields the overall sentiment strongly positive (the positive
\* share, 80%, is above 60%), with counts 12, 3 and 0.
C21_TwelveOfFifteenStrongly ==
    TwelveOfFifteen
        => event.stats = MarketImpactSummary(12, 3, 0, "strongly positive")

\* such a window, 5 of its positive articles very positive, was reported
\* strongly positive
C21_Witness ==
    /\ TwelveOfFifteen
    /\ Cardinality(Labeled({"very_positive"})) = 5
    /\ event.stats.overall_sentiment = "strongly positive"

\* C22: a report request is answered with a report that aggregates over
\* all stored articles of the requested period: with articles stored and
\* a period that leaves none of them out (a month, all categories), the
\* report is produced and covers every stored article.
C22_ReportCoversWindow ==
    (/\ event.op = "report"
     /\ event.request.given = {"start_date", "end_date"}
     /\ event.request.categories_of_interest = <<>>)
        => /\ event.status = 200
           /\ {event.report.filtered_news[i].id :
                   i \in DOMAIN event.report.filtered_news} = event.stored

\* the top news of a generated report are the best-scoring articles of
\* the period, in order
TopNewsRanked ==
    LET r == event.report
        n == Len(r.filtered_news)
        k == event.d.max_news_items
        Score(a) == news_importance_score(a, event.today)
        Included == {r.top_news[j] : j \in DOMAIN r.top_news}
    IN /\ Len(r.top_news) = IF k < n THEN k ELSE n
       /\ Included \subseteq {r.filtered_news[i] : i \in 1..n}
       /\ \A j \in 1..(Len(r.top_news) - 1) :
              Score(r.top_news[j]) >= Score(r.top_news[j + 1])
       /\ \A i \in 1..n :
              r.filtered_news[i] \notin Included
                  => \A a \in Included : Score(r.filtered_news[i]) <= Score(a)

\* C23: the report's top news are the K highest-scoring articles of the
\* period: min(K, number of articles) entries, in non-increasing score
\* order, no omitted article scoring higher than an included one.
C23_TopNewsAreTheBest ==
    event.op = "generated" => event.report.raised = "none" /\ TopNewsRanked

\* the ranking of the reports that were produced
ProducedAreRanked ==
    event.op = "generated" /\ event.report.raised = "none" => TopNewsRanked

\* the recency score of an article, in sevenths, is between 0 and 7, is 7
\* for an article of today and 0 for one a week old or older
RecencyInRange(a) ==
    LET r == RecencySevenths(event.today, a.published_at)
    IN /\ 0 <= r /\ r <= 7
       /\ a.published_at = event.today => r = 7
       /\ a.published_at <= event.today - 7 => r = 0

\* C24: the recency component of the ranking score lies in [0, 1] for
\* every article of a report period: 1 for an article published today,
\* decreasing to 0 for an article a week or more old.
C24_RecencyInUnitInterval ==
    event.op = "generated"
        => \A i \in DOMAIN event.report.filtered_news :
               RecencyInRange(event.report.filtered_news[i])

\* the same for the periods that end today
RecencyOfPastPeriods ==
    event.op = "generated" /\ event.d.end_date <= event.today
        => \A i \in DOMAIN event.report.filtered_news :
               RecencyInRange(event.report.filtered_news[i])

\* C25: source codenames are unique: after any sequence of create, update
\* and delete calls no two stored sources have the same codename.
C25_CodenamesUnique ==
    \A i \in DOMAIN sources : \A j \in DOMAIN sources :
        sources[i].codename = sources[j].codename => i = j

\* the same as long as no update call has been made
UniqueWithoutUpdate ==
    [][event'.op # "source_update" /\ C25_CodenamesUnique
           => C25_CodenamesUnique']_vars

\* no two stored articles have titles that are equal up to case
TitlesDistinct ==
    \A i \in DOMAIN news : \A j \in DOMAIN news :
        Lower(news[i].title) = Lower(news[j].title) => i = j

FirstRun(svc) ==
    /\ event'.op \in {"scrape", "pass"}
    /\ event'.svc = svc
    /\ event'.begin

\* no instance has two loops, and a task that stop() found not yet run
\* does not start iterating
OneLoopStopKept ==
    \A svc \in Svcs :
        /\ Live(tasks', svc) <= 1
        /\ (event.op = "stop" /\ event.svc = svc) => ~FirstRun(svc)

\* C27: under any interleaving of start() and stop() calls on one instance
\* at most one loop is active, and a stop() issued before the started task
\* first runs is not lost: the task does not take up the loop.
C27_OneLoopStopKept == [][OneLoopStopKept]_vars

WriteBackFrame ==
    event.op = "written"
        => \A id \in DOMAIN news \ DOMAIN event.updates :
               news[id] = event.before[id]

\* C29: every terminal label is producible by the response parser: when
\* the text following the title contains "very negative" and no
\* "positive", the parsed label is very_negative.
C29_VeryNegativeParsed ==
    (/\ event.op = "parsed"
     /\ Follows(<<Very, Negative>>)
     /\ ~Follows(<<Positive>>))
        => event.result.impact_prediction = "very_negative"

\* no parsed text is given the label very_negative
VeryNegativeNeverParsed ==
    event.op = "parsed" => event.result.impact_prediction # "very_negative"

\* C30: the overall sentiment never contradicts the majority direction:
\* with more negative than positive articles it is neither positive nor
\* strongly positive, with more positive than negative articles neither
\* negative nor strongly negative.
C30_SentimentFollowsMajority ==
    event.op = "stats"
        => /\ Cardinality(Labeled(NegativeLabels))
                  > Cardinality(Labeled(PositiveLabels))
              => event.stats.overall_sentiment
                     \notin {"positive", "strongly positive"}
           /\ Cardinality(Labeled(PositiveLabels))
                  > Cardinality(Labeled(NegativeLabels))
              => event.stats.overall_sentiment
                     \notin {"negative", "strongly negative"}

\* a majority of positive articles is never reported as negative
PositiveMajorityKept ==
    event.op = "stats"
        => (Cardinality(Labeled(PositiveLabels))
                > Cardinality(Labeled(NegativeLabels))
            => event.stats.overall_sentiment
                   \notin {"negative", "strongly negative"})
====
